---- MODULE Spec2Model ----
(***************************************************************************)
(* State-machine model of the chat client's reconciliation and derived     *)
(* state (ChatContainer.tsx): the merge effect that builds roomMessages    *)
(* from the historical query result, the live message list and the         *)
(* tombstone set, the mention notification it fires, the translation map,  *)
(* the render pipeline (dedup filter + sort), the scroll heuristics, the   *)
(* join effects, the reactions shown on the bubbles, the delete and        *)
(* language handlers; and of the profile image upload                      *)
(* (ProfileImageUpload.tsx).                                               *)
(***************************************************************************)
EXTENDS Integers, Sequences, FiniteSets, TLC

(***************************************************************************)
(* Bounds of the model.                                                    *)
(***************************************************************************)
MaxLive == 1        \* length of the live message list (allMessages)
MaxCount == 2       \* saturation of the per-id notification counter
MaxDeleted == 1     \* size of the tombstone set (deletedMessageIds)
MaxGeneration == 1  \* number of language changes in a session
MaxRequests == 1    \* translation requests in flight
MaxSends == 1       \* pending scroll timers of handleSendMessage
MaxLikes == 1       \* largest like total a live update asserts
MaxDeletes == 1     \* DELETE calls of handleDeleteMessage in a session
MaxUpdates == 2     \* profile-image update requests in a session

(***************************************************************************)
(* Time.  The quiet period of handleScroll's timer, and the step by which  *)
(* the clock of the model advances.                                        *)
(***************************************************************************)
ScrollQuietMs == 2000
TickMs == ScrollQuietMs \div 2

\* The size limit of handleFileUpload, in bytes (1 * 1024 * 1024).
MaxFileBytes == 1048576

(***************************************************************************)
(* Characters and texts.  A text is a sequence of one-character strings.   *)
(***************************************************************************)
Fold(c) == IF c = "A" THEN "a" ELSE IF c = "L" THEN "l" ELSE IF c = "X" THEN "x" ELSE c

IsWordChar(c) == c \in {"a", "A", "l", "L", "x", "X"}

TxtMention == <<"@", "A", "l", " ", "x">>
TxtTail == <<"x", "@", "a", "l">>
TxtLonger == <<"@", "a", "l", "x">>
TxtPlain == <<"a", "l">>

NameAl == <<"a", "l">>
NameAlx == <<"a", "l", "x">>
Names == {NameAl, NameAlx}

Me == "me"
Bob == "bob"
Rooms == {1, 2}

(***************************************************************************)
(* Messages the server can deliver.  id 0 stands for a missing id and      *)
(* timestamp 0 for a missing timestamp (both are falsy in the code).       *)
(* Timestamps are milliseconds.                                            *)
(***************************************************************************)
Msg(i, r, s, txt, ts) ==
  [id |-> i, roomId |-> r, senderId |-> s, originalText |-> txt, timestamp |-> ts]

H1 == Msg(1, 1, Bob, TxtMention, 1000)
L1 == Msg(1, 1, Bob, TxtPlain, 1000)
M2 == Msg(2, 1, Me, TxtMention, 1600)
M3 == Msg(3, 1, Bob, TxtTail, 2000)
M4 == Msg(4, 2, Bob, TxtLonger, 2600)
\* Malformed rows: one without id, one without timestamp and without text.
X0 == Msg(0, 2, Bob, TxtPlain, 2700)
M5 == Msg(5, 2, Bob, <<>>, 0)

MsgIds == {1, 2, 3, 4, 5}

NoData == [isArray |-> FALSE, data |-> <<>>]
Page(s) == [isArray |-> TRUE, data |-> s]

\* Results the historical endpoint can return for a room.
HistoryPages(r) ==
  IF r = 1
    THEN {Page(<<H1>>), Page(<<M3, H1>>)}
    ELSE {Page(<<M4>>), Page(<<M4, X0, M5>>)}

\* Messages the live stream can deliver.
LiveMessages == {L1, M2, M4}

Languages == {"ja", "en"}

\* translatedMessages.get(id) of an id without entry
NoEntry == [lang |-> "none", gen |-> -1, priority |-> "none"]

\* Connection states of the live stream.
ConnectionStates == {"connected", "reconnecting", "disconnected"}

\* messageLikes.get(id) of an id without entry
NoLike == [present |-> FALSE, totalLikes |-> 0, userLiked |-> FALSE]

Like(total, liked) == [present |-> TRUE, totalLikes |-> total, userLiked |-> liked]

\* Ids the like events and the likes snapshot are about.
LikeIds == {1, 3}

\* Pairs a like-update event of the live stream asserts.
LikeUpdates == {Like(n, l) : n \in 0..MaxLikes, l \in BOOLEAN} \ {Like(0, TRUE)}

\* userLikes before the likes query has resolved
NoLikes == [loaded |-> FALSE, likedMessageIds |-> {}]

\* event.target.files?.[0] of the file input: nothing selected, or a file.
NoFile == [selected |-> FALSE, isImage |-> FALSE, size |-> 0]

File(image, bytes) == [selected |-> TRUE, isImage |-> image, size |-> bytes]

FileSizes == {1, MaxFileBytes, MaxFileBytes + 1}

Files == {File(image, bytes) : image \in BOOLEAN, bytes \in FileSizes}

VARIABLES
  roomId,               \* prop roomId: the active room
  userName,             \* getDisplayName(user) of the logged-in user
  queried,              \* rooms whose messages query has been issued
  hist,                 \* query cache: room -> data of ['/api/rooms', room, 'messages']
  allMessages,          \* useWebSocket().messages
  deletedMessageIds,    \* useWebSocket().deletedMessageIds
  roomMessages,         \* state roomMessages
  mentionedMessageIds,  \* state mentionedMessageIds
  passes,               \* runs of the merge effect since its inputs last changed (0, 1, 2+)
  notifyCount,          \* history: notifications fired per message id (saturating)
  fired,                \* history: ids notified by the most recent run of the merge effect
  currentLanguage,      \* state currentLanguage
  generation,           \* history: number of language changes so far
  translatedMessages,   \* state translatedMessages: id -> entry, NoEntry when absent
  requests,             \* translateMessage calls whose callback has not fired yet
  isUserScrolling,      \* state isUserScrolling
  showScrollToBottom,   \* state showScrollToBottom
  userScrollTimeout,    \* pending timers of handleScroll; latest: held by userScrollTimeoutRef
  autoScrollTimeout,    \* the timer of the auto-scroll effect is pending
  sendTimeouts,         \* pending timers of handleSendMessage
  atLatest,             \* the scroll area shows the end marker (messagesEndRef)
  sinceScroll,          \* history: ms since the latest scroll event (saturating)
  cleared,              \* history: the latest scroll event cleared a pending timer
  dropped,              \* history: the latest language change removed an entry of the map
  unmounted,            \* an effect threw: React has unmounted the component
  connection,           \* useWebSocket(): "connected", "reconnecting" or "disconnected"
  connectionChanged,    \* history: the render to flush was caused by a connection change
  joinDeps,             \* <<roomId, isConnected>> of the last run of the join effects
  joins,                \* history: rooms joinRoom was called for by the last effects flush
  messageLikes,         \* useWebSocket().messageLikes: id -> pair, NoLike when absent
  userLikes,            \* data of the ['/api/user/likes'] query, NoData until loaded
  asserted,             \* history: id -> pair of the last live update since the last toggle
  nameChanged,          \* history: the render to flush was caused by a change of user
  deletes,              \* DELETE calls of handleDeleteMessage: id and outcome so far
  bulks,                \* re-translations of handleLanguageChange: one closure per call
  isUploading,          \* ProfileImageUpload: state isUploading
  uploadJob,            \* ProfileImageUpload: "none", "reading", "decoding", "readFailed"
  selectedFile,         \* history: the file of the latest change event of the input
  uploadToast,          \* history: title and text of the latest toast
  updateRequests,       \* history: calls of updateProfileImageMutation.mutate
  updatePending         \* updateProfileImageMutation.isPending

messageVars == <<roomId, userName, queried, hist, allMessages, deletedMessageIds>>
mergeVars == <<roomMessages, mentionedMessageIds, passes, notifyCount, fired>>
translationVars == <<currentLanguage, generation, translatedMessages, requests, dropped>>
scrollVars ==
  <<isUserScrolling, showScrollToBottom, userScrollTimeout, sendTimeouts, sinceScroll, cleared>>
connectionVars == <<connection, connectionChanged, joinDeps, joins>>
likeVars == <<messageLikes, userLikes, asserted>>
uploadVars ==
  <<isUploading, uploadJob, selectedFile, uploadToast, updateRequests, updatePending>>
requestVars == <<deletes, bulks, uploadVars>>
sessionVars == <<connectionVars, likeVars, unmounted, nameChanged, requestVars>>

vars ==
  <<messageVars, mergeVars, translationVars, scrollVars, autoScrollTimeout, atLatest,
    sessionVars>>

isConnected == connection = "connected"

isReconnecting == connection = "reconnecting"

(***************************************************************************)
(* Helpers on sequences.                                                   *)
(***************************************************************************)
Range(s) == {s[i] : i \in DOMAIN s}

Ids(s) == {s[i].id : i \in DOMAIN s}

\* allMessages.filter(msg => msg.roomId === roomId)
RECURSIVE FilterRoom(_, _)
FilterRoom(s, room) ==
  IF s = <<>> THEN <<>>
  ELSE IF Head(s).roomId = room THEN <<Head(s)>> \o FilterRoom(Tail(s), room)
  ELSE FilterRoom(Tail(s), room)

\* new Date(m.timestamp || 0).getTime()
TimeOf(m) == m.timestamp

(***************************************************************************)
(* isUserMentioned: new RegExp(`@${name}\\b`, 'i').test(originalText).     *)
(***************************************************************************)
\* \b after position e of text: exactly one side is a word character.
WordBoundaryAfter(text, e) ==
  LET left == e >= 1 /\ e <= Len(text) /\ IsWordChar(text[e])
      right == e + 1 <= Len(text) /\ IsWordChar(text[e + 1])
  IN left # right

MatchesAt(text, name, p) ==
  /\ text[p] = "@"
  /\ p + Len(name) <= Len(text)
  /\ \A k \in 1..Len(name) : Fold(text[p + k]) = Fold(name[k])
  /\ WordBoundaryAfter(text, p + Len(name))

isUserMentioned(message, name) ==
  /\ message.originalText # <<>>
  /\ \E p \in 1..Len(message.originalText) : MatchesAt(message.originalText, name, p)

(***************************************************************************)
(* The merge: Map keyed by id (insertion ordered), then a stable sort.     *)
(***************************************************************************)
\* Map.prototype.set on an insertion-ordered map kept as a sequence of values.
MapSet(map, msg) ==
  IF \E i \in DOMAIN map : map[i].id = msg.id
    THEN [i \in DOMAIN map |-> IF map[i].id = msg.id THEN msg ELSE map[i]]
    ELSE Append(map, msg)

\* Variant: a row without id is not skipped.
RECURSIVE AddAllNoIdCheck(_, _, _)
AddAllNoIdCheck(map, msgs, deleted) ==
  IF msgs = <<>> THEN map
  ELSE LET m == Head(msgs)
       IN AddAllNoIdCheck(IF m.id \notin deleted THEN MapSet(map, m) ELSE map,
                          Tail(msgs), deleted)

\* forEach(msg => { if (msg.id && !deleted.has(msg.id)) map.set(msg.id, msg) })
RECURSIVE AddAll(_, _, _)
AddAll(map, msgs, deleted) ==
  IF msgs = <<>> THEN map
  ELSE LET m == Head(msgs)
       IN AddAll(IF m.id # 0 /\ m.id \notin deleted THEN MapSet(map, m) ELSE map,
                 Tail(msgs), deleted)

\* (a, b) => time(a) - time(b), as "a sorts after b"
TimeAfter(a, b) == TimeOf(a) - TimeOf(b) > 0

\* Stable insertion of m behind every element it does not sort before.
RECURSIVE InsertByTime(_, _)
InsertByTime(sorted, m) ==
  IF sorted = <<>> THEN <<m>>
  ELSE IF TimeAfter(Head(sorted), m)
    THEN <<m>> \o sorted
    ELSE <<Head(sorted)>> \o InsertByTime(Tail(sorted), m)

\* Array.prototype.sort (stable) with the timestamp comparator.
RECURSIVE SortByTime(_)
SortByTime(s) ==
  IF s = <<>> THEN <<>>
  ELSE InsertByTime(SortByTime(SubSeq(s, 1, Len(s) - 1)), s[Len(s)])

\* Variant: the live loop does not look at the tombstones.
mergedMessagesLiveUnfiltered(initialMessages, wsAll, room, deleted) ==
  LET dbMessages == IF initialMessages.isArray THEN initialMessages.data ELSE <<>>
      wsMessages == FilterRoom(wsAll, room)
  IN SortByTime(AddAll(AddAll(<<>>, dbMessages, deleted), wsMessages, {}))

\* Variant: the database messages are added last and overwrite the live ones.
mergedMessagesDbWins(initialMessages, wsAll, room, deleted) ==
  LET dbMessages == IF initialMessages.isArray THEN initialMessages.data ELSE <<>>
      wsMessages == FilterRoom(wsAll, room)
  IN SortByTime(AddAll(AddAll(<<>>, wsMessages, deleted), dbMessages, deleted))

\* Variant: the map starts from the previous view instead of empty.
mergedMessagesPatched(initialMessages, wsAll, room, deleted) ==
  LET dbMessages == IF initialMessages.isArray THEN initialMessages.data ELSE <<>>
      wsMessages == FilterRoom(wsAll, room)
  IN SortByTime(AddAll(AddAll(roomMessages, dbMessages, deleted), wsMessages, deleted))

\* Variant: the live messages of every room are merged.
mergedMessagesAllRooms(initialMessages, wsAll, room, deleted) ==
  LET dbMessages == IF initialMessages.isArray THEN initialMessages.data ELSE <<>>
  IN SortByTime(AddAll(AddAll(<<>>, dbMessages, deleted), wsAll, deleted))

\* Variant: nothing is shown while the live stream is not connected.
mergedMessagesWhileConnected(initialMessages, wsAll, room, deleted) ==
  LET dbMessages == IF initialMessages.isArray THEN initialMessages.data ELSE <<>>
      wsMessages == FilterRoom(wsAll, room)
  IN IF isConnected
       THEN SortByTime(AddAll(AddAll(<<>>, dbMessages, deleted), wsMessages, deleted))
       ELSE <<>>

mergedMessages(initialMessages, wsAll, room, deleted) ==
  LET dbMessages == IF initialMessages.isArray THEN initialMessages.data ELSE <<>>
      wsMessages == FilterRoom(wsAll, room)
      messageMap == AddAll(AddAll(<<>>, dbMessages, deleted), wsMessages, deleted)
  IN SortByTime(messageMap)

(***************************************************************************)
(* Mention check of the merge effect.                                      *)
(***************************************************************************)
\* Variant: every mentioning message of another sender notifies, new or not.
newMentionsEveryPass(merged, previousMessageIds, name) ==
  {merged[k].id : k \in {j \in DOMAIN merged :
      merged[j].id # 0 /\ merged[j].senderId # Me /\ isUserMentioned(merged[j], name)}}

\* Variant: the sender is not compared with the current user.
newMentionsWithSelf(merged, previousMessageIds, name) ==
  {merged[k].id : k \in {j \in DOMAIN merged :
      merged[j].id # 0 /\ merged[j].id \notin previousMessageIds
        /\ isUserMentioned(merged[j], name)}}

RECURSIVE newMentions(_, _, _)
newMentions(merged, previousMessageIds, name) ==
  IF merged = <<>> THEN {}
  ELSE LET message == Head(merged)
           isNewMessage == message.id # 0 /\ message.id \notin previousMessageIds
           isNotFromSelf == message.senderId # Me
           isMentioned == isUserMentioned(message, name)
       IN (IF isNewMessage /\ isNotFromSelf /\ isMentioned THEN {message.id} ELSE {})
            \cup newMentions(Tail(merged), previousMessageIds, name)

\* Variant: the record is rebuilt from the merged view of the pass.
updatedMentionedOfView(prev, merged, name) ==
  {merged[i].id : i \in {j \in DOMAIN merged :
                          merged[j].id # 0 /\ isUserMentioned(merged[j], name)}}

\* setMentionedMessageIds(prev => prev plus every id of merged that mentions)
updatedMentioned(prev, merged, name) ==
  prev \cup {merged[i].id : i \in {j \in DOMAIN merged :
                                    merged[j].id # 0 /\ isUserMentioned(merged[j], name)}}

Bump(n) == IF n < MaxCount THEN n + 1 ELSE n

(***************************************************************************)
(* The render pipeline: dedup filter, then sort with the translation       *)
(* tie-break.                                                              *)
(***************************************************************************)
has(translated, i) == translated[i] # NoEntry

\* filter((message, index, self) => index === self.findIndex(m => m.id === message.id))
firstOccurrences(s) ==
  LET keep == {k \in DOMAIN s : \A j \in 1..(k - 1) : s[j].id # s[k].id}
      RECURSIVE Pick(_)
      Pick(k) == IF k > Len(s) THEN <<>>
                 ELSE IF k \in keep THEN <<s[k]>> \o Pick(k + 1) ELSE Pick(k + 1)
  IN Pick(1)

\* Variant: the comparator without the translation tie-break.
renderCompareTimeOnly(a, b, translated) == TimeOf(a) - TimeOf(b)

\* The render comparator: its result for (a, b).
renderCompare(a, b, translated) ==
  LET timeComparison == TimeOf(a) - TimeOf(b)
      timeDiff == IF timeComparison < 0 THEN 0 - timeComparison ELSE timeComparison
      aHasTranslation == has(translated, a.id)
      bHasTranslation == has(translated, b.id)
  IN IF timeDiff < 1000 /\ aHasTranslation /\ ~bHasTranslation THEN 1
     ELSE IF timeDiff < 1000 /\ ~aHasTranslation /\ bHasTranslation THEN -1
     ELSE timeComparison

RECURSIVE InsertRendered(_, _, _)
InsertRendered(sorted, m, translated) ==
  IF sorted = <<>> THEN <<m>>
  ELSE IF renderCompare(Head(sorted), m, translated) > 0
    THEN <<m>> \o sorted
    ELSE <<Head(sorted)>> \o InsertRendered(Tail(sorted), m, translated)

\* Array.prototype.sort (stable) with the render comparator.
RECURSIVE SortRendered(_, _)
SortRendered(s, translated) ==
  IF s = <<>> THEN <<>>
  ELSE InsertRendered(SortRendered(SubSeq(s, 1, Len(s) - 1), translated), s[Len(s)],
                      translated)

\* The sequence of MessageBubble elements.
rendered(view, translated) == SortRendered(firstOccurrences(view), translated)

(***************************************************************************)
(* The auto-scroll effect, deps [roomMessages.length, isUserScrolling,     *)
(* showScrollToBottom]: when a dep changed, the cleanup clears the pending *)
(* timer and the body schedules a new one if the condition holds.          *)
(***************************************************************************)
autoScrollEffect(timer, len, scrolling, show, lenNew, scrollingNew, showNew) ==
  IF <<len, scrolling, show>> = <<lenNew, scrollingNew, showNew>>
    THEN timer
    ELSE ~scrollingNew /\ ~showNew /\ lenNew > 0

(***************************************************************************)
(* Initial state: component mounted in room 1, nothing loaded yet.         *)
(***************************************************************************)
Init ==
  /\ roomId = 1
  /\ userName = NameAl
  /\ queried = {1}
  /\ hist = [r \in Rooms |-> NoData]
  /\ allMessages = <<>>
  /\ deletedMessageIds = {}
  /\ roomMessages = <<>>
  /\ mentionedMessageIds = {}
  /\ passes = 0
  /\ notifyCount = [i \in MsgIds |-> 0]
  /\ fired = {}
  /\ currentLanguage = "ja"
  /\ generation = 0
  /\ translatedMessages = [i \in MsgIds |-> NoEntry]
  /\ requests = {}
  /\ isUserScrolling = FALSE
  /\ showScrollToBottom = FALSE
  /\ userScrollTimeout = {}
  /\ autoScrollTimeout = FALSE
  /\ sendTimeouts = 0
  /\ atLatest = TRUE
  /\ sinceScroll = ScrollQuietMs
  /\ cleared = FALSE
  /\ dropped = FALSE
  /\ unmounted = FALSE
  /\ connection = "disconnected"
  /\ connectionChanged = FALSE
  /\ joinDeps = <<0, FALSE>>
  /\ joins = {}
  /\ messageLikes = [i \in MsgIds |-> NoLike]
  /\ userLikes = NoLikes
  /\ asserted = [i \in MsgIds |-> NoLike]
  /\ nameChanged = FALSE
  /\ deletes = {}
  /\ bulks = {}
  /\ isUploading = FALSE
  /\ uploadJob = "none"
  /\ selectedFile = NoFile
  /\ uploadToast = "none"
  /\ updateRequests = 0
  /\ updatePending = FALSE

\* Every committed render runs its effects before the next event is handled.
Idle == passes > 0 /\ ~unmounted

(***************************************************************************)
(* Inputs of the merge effect.                                             *)
(***************************************************************************)
\* The messages query of room r resolves; its data is stored under r's key.
FetchResult ==
  \E r \in queried : \E page \in HistoryPages(r) :
    /\ Idle
    /\ hist' = [hist EXCEPT ![r] = page]
    /\ passes' = IF r = roomId /\ page # hist[r] THEN 0 ELSE passes
    /\ UNCHANGED <<roomId, userName, queried, allMessages, deletedMessageIds>>
    /\ UNCHANGED <<roomMessages, mentionedMessageIds, notifyCount, fired>>
    /\ UNCHANGED <<translationVars, scrollVars, autoScrollTimeout, atLatest, sessionVars>>

\* A message event of the live stream is appended to messages.
LiveMessage ==
  \E m \in LiveMessages :
    /\ Idle
    /\ Len(allMessages) < MaxLive
    /\ allMessages' = Append(allMessages, m)
    /\ passes' = 0
    /\ UNCHANGED <<roomId, userName, queried, hist, deletedMessageIds>>
    /\ UNCHANGED <<roomMessages, mentionedMessageIds, notifyCount, fired>>
    /\ UNCHANGED <<translationVars, scrollVars, autoScrollTimeout, atLatest, sessionVars>>

\* A deletion event of the live stream adds the id to deletedMessageIds.
DeletionEvent ==
  \E i \in MsgIds :
    /\ Idle
    /\ i \notin deletedMessageIds
    /\ Cardinality(deletedMessageIds) < MaxDeleted
    /\ deletedMessageIds' = deletedMessageIds \cup {i}
    /\ passes' = 0
    /\ UNCHANGED <<roomId, userName, queried, hist, allMessages>>
    /\ UNCHANGED <<roomMessages, mentionedMessageIds, notifyCount, fired>>
    /\ UNCHANGED <<translationVars, scrollVars, autoScrollTimeout, atLatest, sessionVars>>

\* The parent passes another roomId; the query key changes with it.
RoomSwitch ==
  \E r \in Rooms \ {roomId} :
    /\ Idle
    /\ roomId' = r
    /\ queried' = queried \cup {r}
    /\ passes' = 0
    /\ UNCHANGED <<userName, hist, allMessages, deletedMessageIds>>
    /\ UNCHANGED <<roomMessages, mentionedMessageIds, notifyCount, fired>>
    /\ UNCHANGED <<translationVars, scrollVars, autoScrollTimeout, atLatest, sessionVars>>

\* The connection state changes (an event of the live stream): the component
\* renders again with the new isConnected / isReconnecting.
ConnectionChange ==
  \E state \in ConnectionStates \ {connection} :
    /\ Idle
    /\ connection' = state
    /\ connectionChanged' = TRUE
    /\ passes' = 0
    /\ UNCHANGED <<messageVars, translationVars, scrollVars, autoScrollTimeout, atLatest>>
    /\ UNCHANGED <<roomMessages, mentionedMessageIds, notifyCount, fired>>
    /\ UNCHANGED <<joinDeps, joins, likeVars, unmounted, nameChanged, requestVars>>

\* useAuth() returns a user with another display name (the profile was
\* edited): the component renders again and isUserMentioned reads the new name.
UserUpdate ==
  \E name \in Names \ {userName} :
    /\ Idle
    /\ userName' = name
    /\ nameChanged' = TRUE
    /\ passes' = 0
    /\ UNCHANGED <<roomId, queried, hist, allMessages, deletedMessageIds>>
    /\ UNCHANGED <<roomMessages, mentionedMessageIds, notifyCount, fired>>
    /\ UNCHANGED <<translationVars, scrollVars, autoScrollTimeout, atLatest>>
    /\ UNCHANGED <<connectionVars, likeVars, unmounted, requestVars>>

(***************************************************************************)
(* The two join effects, deps [roomId, isConnected, joinRoom] (the first   *)
(* also refetchMessages): the rooms joinRoom is called for by one run.     *)
(***************************************************************************)
\* Variant: the join does not look at the connection.
joinRoomEffectAlways(connected, room) == IF room # 0 THEN {room} ELSE {}

\* if (isConnected && roomId) joinRoom(roomId)
joinRoomEffect(connected, room) == IF connected /\ room # 0 THEN {room} ELSE {}

\* The join effects in an effects flush.  rerun: joinRoom is a new function
\* in this render (useWebSocket decides), so the effects run without a
\* change of roomId or isConnected.
JoinEffects ==
  /\ \E rerun \in BOOLEAN :
       joins' = IF rerun \/ joinDeps # <<roomId, isConnected>>
                  THEN joinRoomEffect(isConnected, roomId)
                  ELSE {}
  /\ joinDeps' = <<roomId, isConnected>>

(***************************************************************************)
(* The merge effect (one reconciliation pass), with the join effects       *)
(* before it and the auto-scroll effect after it in the same flush.  Its   *)
(* dependency list holds functions recreated on every render, so it also   *)
(* re-runs when no input changed.  Audio playback that is rejected is      *)
(* caught in playNotificationSound, and without permission no system       *)
(* notification is constructed: neither changes the pass.                  *)
(***************************************************************************)
MergeEffect ==
  LET merged == mergedMessages(hist[roomId], allMessages, roomId, deletedMessageIds)
      previousMessageIds == Ids(roomMessages)
      mentions == newMentions(merged, previousMessageIds, userName)
  IN /\ ~unmounted
     /\ notifyCount' = [i \in MsgIds |-> IF i \in mentions THEN Bump(notifyCount[i])
                                                          ELSE notifyCount[i]]
     /\ fired' = mentions
     /\ mentionedMessageIds' = updatedMentioned(mentionedMessageIds, merged, userName)
     /\ roomMessages' = merged
     /\ passes' = IF passes < 2 THEN passes + 1 ELSE passes
     /\ autoScrollTimeout' =
          autoScrollEffect(autoScrollTimeout, Len(roomMessages), isUserScrolling,
                           showScrollToBottom, Len(merged), isUserScrolling,
                           showScrollToBottom)
     /\ atLatest' = (atLatest /\ Ids(merged) \subseteq previousMessageIds)
     /\ JoinEffects
     /\ connectionChanged' = FALSE
     /\ nameChanged' = FALSE
     /\ UNCHANGED <<messageVars, translationVars, scrollVars>>
     /\ UNCHANGED <<connection, likeVars, unmounted, requestVars>>

\* The id of the first element of merged that notifies.
firstMention(merged, previousMessageIds, name) ==
  LET first == CHOOSE k \in DOMAIN merged :
                 /\ newMentions(<<merged[k]>>, previousMessageIds, name) # {}
                 /\ \A j \in 1..(k - 1) :
                      newMentions(<<merged[j]>>, previousMessageIds, name) = {}
  IN merged[first].id

\* The same flush on a platform where permission is granted and
\* new Notification(...) throws: the sound of the first mention has been
\* started, the exception leaves the effect before the state setters, and
\* React unmounts the component (its cleanup clears the auto-scroll timer).
MergeEffectNotificationThrows ==
  LET merged == mergedMessages(hist[roomId], allMessages, roomId, deletedMessageIds)
      previousMessageIds == Ids(roomMessages)
      mentions == newMentions(merged, previousMessageIds, userName)
  IN /\ ~unmounted
     /\ mentions # {}
     /\ LET first == firstMention(merged, previousMessageIds, userName)
        IN /\ notifyCount' = [notifyCount EXCEPT ![first] = Bump(notifyCount[first])]
           /\ fired' = {first}
     /\ unmounted' = TRUE
     /\ autoScrollTimeout' = FALSE
     /\ JoinEffects
     /\ connectionChanged' = FALSE
     /\ nameChanged' = FALSE
     /\ UNCHANGED <<roomMessages, mentionedMessageIds, passes, atLatest>>
     /\ UNCHANGED <<messageVars, translationVars, scrollVars>>
     /\ UNCHANGED <<connection, likeVars, requestVars>>

(***************************************************************************)
(* Deleting a message.  handleDeleteMessage awaits the DELETE call; the    *)
(* response is handled in a later task.                                    *)
(***************************************************************************)
DeleteOutcomes == {"ok", "failed"}

\* Variant: the message is tombstoned locally when the delete is requested.
handleDeleteMessageOptimistic ==
  \E messageId \in Ids(roomMessages) :
    /\ Idle
    /\ Cardinality(deletes) < MaxDeletes
    /\ deletes' = deletes \cup {[id |-> messageId, outcome |-> "pending"]}
    /\ deletedMessageIds' = deletedMessageIds \cup {messageId}
    /\ passes' = 0
    /\ UNCHANGED <<roomId, userName, queried, hist, allMessages>>
    /\ UNCHANGED <<roomMessages, mentionedMessageIds, notifyCount, fired>>
    /\ UNCHANGED <<translationVars, scrollVars, autoScrollTimeout, atLatest>>
    /\ UNCHANGED <<connectionVars, likeVars, unmounted, nameChanged, bulks, uploadVars>>

\* onDelete of a bubble (own messages, or any message for the administrator):
\* fetch(`/api/messages/${messageId}`, {method: 'DELETE'}) is issued.
handleDeleteMessage ==
  \E messageId \in Ids(roomMessages) :
    /\ Idle
    /\ Cardinality(deletes) < MaxDeletes
    /\ deletes' = deletes \cup {[id |-> messageId, outcome |-> "pending"]}
    /\ UNCHANGED <<messageVars, mergeVars, translationVars, scrollVars>>
    /\ UNCHANGED <<autoScrollTimeout, atLatest>>
    /\ UNCHANGED <<connectionVars, likeVars, unmounted, nameChanged, bulks, uploadVars>>

\* The DELETE call settles.  ok: nothing is done ("Message will be removed via
\* WebSocket broadcast").  failed (response not ok, or the fetch rejected): the
\* catch block logs and shows the alert.  No state setter is called.
DeleteResponse ==
  \E d \in deletes : \E result \in DeleteOutcomes :
    /\ Idle
    /\ d.outcome = "pending"
    /\ deletes' = (deletes \ {d}) \cup {[id |-> d.id, outcome |-> result]}
    /\ UNCHANGED <<messageVars, mergeVars, translationVars, scrollVars>>
    /\ UNCHANGED <<autoScrollTimeout, atLatest>>
    /\ UNCHANGED <<connectionVars, likeVars, unmounted, nameChanged, bulks, uploadVars>>

(***************************************************************************)
(* Translation.                                                            *)
(***************************************************************************)
\* handleManualTranslation for a message of the view: the request is handed
\* to translationManager; it carries the language it was made under.
handleManualTranslation ==
  \E messageId \in MsgIds :
    /\ Idle
    /\ messageId \in Ids(roomMessages)
    /\ Cardinality(requests) < MaxRequests
    /\ requests' = requests \cup
         {[id |-> messageId, lang |-> currentLanguage, gen |-> generation]}
    /\ UNCHANGED <<messageVars, mergeVars, scrollVars, autoScrollTimeout, atLatest, sessionVars>>
    /\ UNCHANGED <<currentLanguage, generation, translatedMessages, dropped>>

\* The callback handed to translateMessage: updated.set(messageId, result).
translationCallback(prev, request) ==
  [prev EXCEPT ![request.id] =
     [lang |-> request.lang, gen |-> request.gen, priority |-> "high"]]

\* translationManager answers a request.
TranslationDone ==
  \E request \in requests :
    /\ Idle
    /\ requests' = requests \ {request}
    /\ translatedMessages' = translationCallback(translatedMessages, request)
    /\ UNCHANGED <<messageVars, mergeVars, scrollVars, autoScrollTimeout, atLatest, sessionVars>>
    /\ UNCHANGED <<currentLanguage, generation, dropped>>

\* translationManager drops a request (translation failed silently).
TranslationLost ==
  \E request \in requests :
    /\ Idle
    /\ requests' = requests \ {request}
    /\ UNCHANGED <<messageVars, mergeVars, scrollVars, autoScrollTimeout, atLatest, sessionVars>>
    /\ UNCHANGED <<currentLanguage, generation, translatedMessages, dropped>>

\* Variant: the language changes and the map is left as it is.
selectLanguageKeepCache ==
  \E newLang \in Languages \ {currentLanguage} :
    /\ Idle
    /\ generation < MaxGeneration
    /\ currentLanguage' = newLang
    /\ generation' = generation + 1
    /\ dropped' = FALSE
    /\ UNCHANGED translatedMessages
    /\ UNCHANGED <<messageVars, mergeVars, scrollVars, autoScrollTimeout, atLatest, sessionVars>>
    /\ UNCHANGED requests

\* onChange of the language select (setCurrentLanguage, setTranslatedMessages(new
\* Map())), then the [currentLanguage] effect, which sets an empty map again.
selectLanguage ==
  \E newLang \in Languages \ {currentLanguage} :
    /\ Idle
    /\ generation < MaxGeneration
    /\ currentLanguage' = newLang
    /\ generation' = generation + 1
    /\ translatedMessages' = [i \in MsgIds |-> NoEntry]
    /\ dropped' = \E i \in MsgIds : has(translatedMessages, i)
    /\ UNCHANGED <<messageVars, mergeVars, scrollVars, autoScrollTimeout, atLatest, sessionVars>>
    /\ UNCHANGED requests

(***************************************************************************)
(* handleLanguageChange: the same reset as the select, then after 200 ms   *)
(* a re-translation of the messages the handler's render held.  Each call  *)
(* owns a closure: the messages (ids), the map freshTranslations (fresh)   *)
(* and, as processedCount, the number of callbacks that have fired.        *)
(***************************************************************************)
Bulk(g, l, messages) ==
  [gen |-> g, lang |-> l, ids |-> Ids(messages), length |-> Len(messages),
   fresh |-> {}, lost |-> {}, phase |-> "timer"]

\* The entry a callback of the closure b puts into freshTranslations.
BulkEntry(b) == [lang |-> b.lang, gen |-> b.gen, priority |-> "normal"]

handleLanguageChange ==
  \E newLanguage \in Languages :
    /\ Idle
    /\ generation < MaxGeneration
    /\ IF newLanguage = currentLanguage
         THEN UNCHANGED <<translationVars, bulks>>
         ELSE /\ currentLanguage' = newLanguage
              /\ generation' = generation + 1
              /\ translatedMessages' = [i \in MsgIds |-> NoEntry]
              /\ dropped' = \E i \in MsgIds : has(translatedMessages, i)
              /\ bulks' = bulks \cup {Bulk(generation + 1, newLanguage, roomMessages)}
              /\ UNCHANGED requests
    /\ UNCHANGED <<messageVars, mergeVars, scrollVars, autoScrollTimeout, atLatest>>
    /\ UNCHANGED <<connectionVars, likeVars, unmounted, nameChanged, deletes,
                   uploadVars>>

\* The 200 ms timer fires: setTranslatedMessages(new Map()), and if the closure
\* holds messages, translateMessage(msg, newLanguage, 'normal', callback) for each.
BulkTimeoutFire ==
  \E b \in bulks :
    /\ Idle
    /\ b.phase = "timer"
    /\ translatedMessages' = [i \in MsgIds |-> NoEntry]
    /\ bulks' = (bulks \ {b}) \cup
         {[b EXCEPT !.phase = IF b.length > 0 THEN "running" ELSE "empty"]}
    /\ UNCHANGED <<currentLanguage, generation, requests, dropped>>
    /\ UNCHANGED <<messageVars, mergeVars, scrollVars, autoScrollTimeout, atLatest>>
    /\ UNCHANGED <<connectionVars, likeVars, unmounted, nameChanged, deletes,
                   uploadVars>>

\* Variant: every callback writes its result into the state at once.
BulkCallbackIncremental ==
  \E b \in bulks : \E i \in b.ids \ (b.fresh \cup b.lost) :
    /\ Idle
    /\ b.phase = "running"
    /\ bulks' = (bulks \ {b}) \cup
         {[b EXCEPT !.fresh = b.fresh \cup {i},
                    !.phase = IF Cardinality(b.fresh) + 1 = b.length
                                THEN "published" ELSE "running"]}
    /\ translatedMessages' = [translatedMessages EXCEPT ![i] = BulkEntry(b)]
    /\ UNCHANGED <<currentLanguage, generation, requests, dropped>>
    /\ UNCHANGED <<messageVars, mergeVars, scrollVars, autoScrollTimeout, atLatest>>
    /\ UNCHANGED <<connectionVars, likeVars, unmounted, nameChanged, deletes,
                   uploadVars>>

\* A callback of the re-translation: freshTranslations.set(msg.id, translated);
\* processedCount += 1; if (processedCount === roomMessages.length)
\* setTranslatedMessages(freshTranslations).
BulkCallback ==
  \E b \in bulks : \E i \in b.ids \ (b.fresh \cup b.lost) :
    LET fresh == b.fresh \cup {i}
        processedCount == Cardinality(b.fresh) + 1
    IN /\ Idle
       /\ b.phase = "running"
       /\ bulks' = (bulks \ {b}) \cup
            {[b EXCEPT !.fresh = fresh,
                       !.phase = IF processedCount = b.length
                                   THEN "published" ELSE "running"]}
       /\ translatedMessages' =
            IF processedCount = b.length
              THEN [j \in MsgIds |-> IF j \in fresh THEN BulkEntry(b) ELSE NoEntry]
              ELSE translatedMessages
       /\ UNCHANGED <<currentLanguage, generation, requests, dropped>>
       /\ UNCHANGED <<messageVars, mergeVars, scrollVars, autoScrollTimeout, atLatest>>
       /\ UNCHANGED <<connectionVars, likeVars, unmounted, nameChanged, deletes,
                   uploadVars>>

\* translationManager drops a request of the re-translation: its callback
\* never fires.
BulkLost ==
  \E b \in bulks : \E i \in b.ids \ (b.fresh \cup b.lost) :
    /\ Idle
    /\ b.phase = "running"
    /\ bulks' = (bulks \ {b}) \cup {[b EXCEPT !.lost = b.lost \cup {i}]}
    /\ UNCHANGED <<messageVars, mergeVars, translationVars, scrollVars>>
    /\ UNCHANGED <<autoScrollTimeout, atLatest>>
    /\ UNCHANGED <<connectionVars, likeVars, unmounted, nameChanged, deletes,
                   uploadVars>>

(***************************************************************************)
(* Scrolling.                                                              *)
(***************************************************************************)
\* Variant: scrolls without hiding the jump-to-latest button.
scrollToBottomKeepButton(pending) ==
  /\ atLatest' = TRUE
  /\ autoScrollTimeout' = pending
  /\ UNCHANGED showScrollToBottom

\* scrollToBottom: scrollIntoView on the end marker, setShowScrollToBottom(false).
\* pending: whether the auto-scroll effect's timer is pending when it is called.
scrollToBottom(pending) ==
  /\ atLatest' = TRUE
  /\ showScrollToBottom' = FALSE
  /\ autoScrollTimeout' =
       autoScrollEffect(pending, Len(roomMessages), isUserScrolling,
                        showScrollToBottom, Len(roomMessages), isUserScrolling, FALSE)

\* A timer of handleScroll: ms until it is due, and whether it is the one
\* userScrollTimeoutRef holds (the one the latest scroll event created).
Timer(l, r) == [latest |-> l, remaining |-> r]

\* Variant: the previous timer is not cleared.
restartedTimersNoClear(timers) ==
  {Timer(FALSE, t.remaining) : t \in timers} \cup {Timer(TRUE, ScrollQuietMs)}

\* if (ref.current) clearTimeout(ref.current); ref.current = setTimeout(..., 2000)
restartedTimers(timers) ==
  {Timer(FALSE, t.remaining) : t \in {x \in timers : ~x.latest}}
    \cup {Timer(TRUE, ScrollQuietMs)}

\* A scroll event of the scroll area, at a position near the bottom or not.
handleScroll ==
  \E isNearBottom \in BOOLEAN :
    /\ Idle
    /\ showScrollToBottom' = (~isNearBottom /\ Len(roomMessages) > 0)
    /\ isUserScrolling' = TRUE
    /\ userScrollTimeout' = restartedTimers(userScrollTimeout)
    /\ sinceScroll' = 0
    /\ cleared' = \E t \in userScrollTimeout : t.latest
    /\ atLatest' = isNearBottom
    /\ autoScrollTimeout' =
         autoScrollEffect(autoScrollTimeout, Len(roomMessages), isUserScrolling,
                          showScrollToBottom, Len(roomMessages), TRUE,
                          ~isNearBottom /\ Len(roomMessages) > 0)
    /\ UNCHANGED <<messageVars, mergeVars, translationVars, sessionVars, sendTimeouts>>

\* TickMs pass.  Timers that are due fire before more time passes; the
\* 100 ms timers are due within the step.
Tick ==
  /\ Idle
  /\ ~autoScrollTimeout
  /\ sendTimeouts = 0
  /\ \A t \in userScrollTimeout : t.remaining > 0
  /\ userScrollTimeout' = {Timer(t.latest, t.remaining - TickMs) : t \in userScrollTimeout}
  /\ sinceScroll' = IF sinceScroll < ScrollQuietMs THEN sinceScroll + TickMs ELSE sinceScroll
  /\ UNCHANGED <<messageVars, mergeVars, translationVars, sessionVars>>
  /\ UNCHANGED <<isUserScrolling, showScrollToBottom, sendTimeouts, cleared>>
  /\ UNCHANGED <<autoScrollTimeout, atLatest>>

\* A timer of handleScroll is due and fires: setIsUserScrolling(false).
UserScrollTimeoutFire ==
  /\ Idle
  /\ \E t \in userScrollTimeout :
       /\ t.remaining = 0
       /\ userScrollTimeout' = userScrollTimeout \ {t}
  /\ isUserScrolling' = FALSE
  /\ autoScrollTimeout' =
       autoScrollEffect(autoScrollTimeout, Len(roomMessages), isUserScrolling,
                        showScrollToBottom, Len(roomMessages), FALSE, showScrollToBottom)
  /\ UNCHANGED <<messageVars, mergeVars, translationVars, sessionVars>>
  /\ UNCHANGED <<showScrollToBottom, sendTimeouts, atLatest, sinceScroll, cleared>>

\* The 100 ms timer of the auto-scroll effect fires.
AutoScrollFire ==
  /\ Idle
  /\ autoScrollTimeout
  /\ scrollToBottom(FALSE)
  /\ UNCHANGED <<messageVars, mergeVars, translationVars, sessionVars>>
  /\ UNCHANGED <<isUserScrolling, userScrollTimeout, sendTimeouts, sinceScroll, cleared>>

\* Click on the jump-to-latest button, shown while showScrollToBottom.
JumpToLatest ==
  /\ Idle
  /\ showScrollToBottom
  /\ scrollToBottom(autoScrollTimeout)
  /\ UNCHANGED <<messageVars, mergeVars, translationVars, sessionVars>>
  /\ UNCHANGED <<isUserScrolling, userScrollTimeout, sendTimeouts, sinceScroll, cleared>>

\* handleSendMessage(text): a blank text returns at once.
handleSendMessage ==
  \E blank \in BOOLEAN :
    /\ Idle
    /\ sendTimeouts < MaxSends
    /\ sendTimeouts' = IF blank THEN sendTimeouts ELSE sendTimeouts + 1
    /\ UNCHANGED <<messageVars, mergeVars, translationVars, sessionVars>>
    /\ UNCHANGED <<isUserScrolling, showScrollToBottom, userScrollTimeout, sinceScroll, cleared>>
    /\ UNCHANGED <<autoScrollTimeout, atLatest>>

\* The 100 ms timer of handleSendMessage fires.
SendScrollFire ==
  /\ Idle
  /\ sendTimeouts > 0
  /\ sendTimeouts' = sendTimeouts - 1
  /\ scrollToBottom(autoScrollTimeout)
  /\ UNCHANGED <<messageVars, mergeVars, translationVars, sessionVars>>
  /\ UNCHANGED <<isUserScrolling, userScrollTimeout, sinceScroll, cleared>>

(***************************************************************************)
(* Reactions.  messageLikes belongs to useWebSocket; the component seeds   *)
(* it from the likes query, reads it for every bubble and calls toggleLike.*)
(***************************************************************************)
\* totalLikes={likeData?.totalLikes || 0} userLiked={likeData?.userLiked || false}
likeProps(likes, i) ==
  LET likeData == likes[i]
  IN [totalLikes |-> IF likeData.present /\ likeData.totalLikes # 0
                       THEN likeData.totalLikes ELSE 0,
      userLiked |-> likeData.present /\ likeData.userLiked]

\* initializeLikes(ids): userLiked = true for the given ids, totals untouched.
initializeLikes(likes, ids) ==
  [i \in MsgIds |->
     IF i \in ids
       THEN Like(IF likes[i].present THEN likes[i].totalLikes ELSE 0, TRUE)
       ELSE likes[i]]

\* The likes query resolves and the [userLikes, initializeLikes] effect runs:
\* if (userLikes?.likedMessageIds) initializeLikes(userLikes.likedMessageIds).
userLikesEffect ==
  \E ids \in SUBSET LikeIds :
    /\ Idle
    /\ ~userLikes.loaded
    /\ userLikes' = [loaded |-> TRUE, likedMessageIds |-> ids]
    /\ messageLikes' = initializeLikes(messageLikes, ids)
    /\ UNCHANGED <<messageVars, mergeVars, translationVars, scrollVars>>
    /\ UNCHANGED <<autoScrollTimeout, atLatest, connectionVars, unmounted, asserted>>
    /\ UNCHANGED <<nameChanged, requestVars>>

\* onToggleLike of a bubble: toggleLike(message.id) flips userLiked and moves
\* totalLikes by one, ahead of the server's answer.
toggleLike ==
  \E i \in LikeIds \cap Ids(roomMessages) :
    LET likeData == messageLikes[i]
        delta == IF likeData.userLiked THEN -1 ELSE 1
    IN /\ Idle
       /\ likeData.totalLikes <= MaxLikes
       /\ messageLikes' =
            [messageLikes EXCEPT ![i] = Like(likeData.totalLikes + delta, ~likeData.userLiked)]
       /\ asserted' = [asserted EXCEPT ![i] = NoLike]
       /\ UNCHANGED <<messageVars, mergeVars, translationVars, scrollVars>>
       /\ UNCHANGED <<autoScrollTimeout, atLatest, connectionVars, unmounted, userLikes>>
       /\ UNCHANGED <<nameChanged, requestVars>>

\* A like-update event of the live stream: the server's pair replaces the entry.
LikeUpdate ==
  \E i \in LikeIds : \E pair \in LikeUpdates :
    /\ Idle
    /\ messageLikes' = [messageLikes EXCEPT ![i] = pair]
    /\ asserted' = [asserted EXCEPT ![i] = pair]
    /\ UNCHANGED <<messageVars, mergeVars, translationVars, scrollVars>>
    /\ UNCHANGED <<autoScrollTimeout, atLatest, connectionVars, unmounted, userLikes>>
    /\ UNCHANGED <<nameChanged, requestVars>>

(***************************************************************************)
(* ProfileImageUpload: handleFileUpload and the events of the FileReader,  *)
(* the Image and the update mutation it starts.  The upload button is      *)
(* disabled while isUploading or while the mutation is pending.            *)
(***************************************************************************)
chatVars ==
  <<messageVars, mergeVars, translationVars, scrollVars, autoScrollTimeout, atLatest,
    connectionVars, likeVars, unmounted, nameChanged, deletes, bulks>>

\* The toast of the validation of handleFileUpload, "none" for a file it accepts.
validationToast(file) ==
  IF ~file.isImage THEN "Invalid file type: Please select an image file."
  ELSE IF file.size > MaxFileBytes
    THEN "File too large: Please select an image smaller than 1MB."
  ELSE "none"

\* A change event of the file input.  thrown: a statement of the try block
\* throws (the catch block resets isUploading and reports).
handleFileUpload ==
  \E file \in Files \cup {NoFile} : \E thrown \in BOOLEAN :
    /\ ~isUploading
    /\ ~updatePending
    /\ updateRequests < MaxUpdates
    /\ selectedFile' = file
    /\ IF ~file.selected
         THEN UNCHANGED <<isUploading, uploadJob, uploadToast>>
         ELSE IF validationToast(file) # "none"
           THEN /\ uploadToast' = validationToast(file)
                /\ UNCHANGED <<isUploading, uploadJob>>
         ELSE IF thrown
           THEN /\ uploadToast' = "Error: Failed to process the image."
                /\ UNCHANGED <<isUploading, uploadJob>>
         ELSE /\ isUploading' = TRUE
              /\ uploadJob' = "reading"
              /\ UNCHANGED uploadToast
    /\ UNCHANGED <<updateRequests, updatePending, chatVars>>

\* reader.onload: img.src = e.target.result
ReaderLoad ==
  /\ uploadJob = "reading"
  /\ uploadJob' = "decoding"
  /\ UNCHANGED <<isUploading, selectedFile, uploadToast, updateRequests, updatePending>>
  /\ UNCHANGED chatVars

\* The FileReader fails (error or abort event): no handler is registered.
ReaderError ==
  /\ uploadJob = "reading"
  /\ uploadJob' = "readFailed"
  /\ UNCHANGED <<isUploading, selectedFile, uploadToast, updateRequests, updatePending>>
  /\ UNCHANGED chatVars

\* img.onload: the image is scaled, updateProfileImageMutation.mutate(...) is
\* called, setIsUploading(false).
ImageLoad ==
  /\ uploadJob = "decoding"
  /\ uploadJob' = "none"
  /\ updateRequests' = updateRequests + 1
  /\ updatePending' = TRUE
  /\ isUploading' = FALSE
  /\ UNCHANGED <<selectedFile, uploadToast, chatVars>>

\* img.onerror: toast, setIsUploading(false).
ImageError ==
  /\ uploadJob = "decoding"
  /\ uploadJob' = "none"
  /\ uploadToast' = "Error: Failed to process the image file."
  /\ isUploading' = FALSE
  /\ UNCHANGED <<selectedFile, updateRequests, updatePending, chatVars>>

\* The update mutation settles: onSuccess or onError shows its toast.
UpdateSettled ==
  \E succeeded \in BOOLEAN :
    /\ updatePending
    /\ updatePending' = FALSE
    /\ uploadToast' = IF succeeded THEN "Profile image updated"
                                   ELSE "Error: Failed to update profile image."
    /\ UNCHANGED <<isUploading, uploadJob, selectedFile, updateRequests, chatVars>>

(***************************************************************************)
(* Specifications.  Spec: the message sources and the merge effect.        *)
(* SpecTranslation: one room's messages with the translation map.          *)
(* SpecScroll: messages arriving while the user scrolls and sends.         *)
(* SpecSend, SpecConnection, SpecLikes: sending in one room, the           *)
(* connection state with the join effects, and the reactions.              *)
(* SpecMention, SpecDelete, SpecBulk, SpecRetranslate, SpecUpload: the     *)
(* mention record, delete requests, handleLanguageChange with and without  *)
(* manual translations, and the profile image upload.                      *)
(***************************************************************************)
Next ==
  \/ FetchResult
  \/ LiveMessage
  \/ DeletionEvent
  \/ RoomSwitch
  \/ MergeEffect
  \/ MergeEffectNotificationThrows
  \/ AutoScrollFire

Spec == Init /\ [][Next]_vars

\* The effects of a committed render run.
SpecFair == Spec /\ WF_vars(MergeEffect)

NextTranslation ==
  \/ FetchResult
  \/ LiveMessage
  \/ MergeEffect
  \/ handleManualTranslation
  \/ TranslationDone
  \/ TranslationLost
  \/ selectLanguage

SpecTranslation == Init /\ [][NextTranslation]_vars

NextScroll ==
  \/ FetchResult
  \/ RoomSwitch
  \/ MergeEffect
  \/ handleScroll
  \/ UserScrollTimeoutFire
  \/ AutoScrollFire
  \/ JumpToLatest
  \/ Tick
  \/ handleSendMessage
  \/ SendScrollFire

SpecScroll == Init /\ [][NextScroll]_vars

\* SpecSend: sending while the user scrolls in one room.
NextSend ==
  \/ FetchResult
  \/ MergeEffect
  \/ handleScroll
  \/ UserScrollTimeoutFire
  \/ AutoScrollFire
  \/ JumpToLatest
  \/ Tick
  \/ handleSendMessage
  \/ SendScrollFire

SpecSend == Init /\ [][NextSend]_vars

\* Effects of a committed render run, and timers that are pending fire.
SpecSendFair == SpecSend /\ WF_vars(MergeEffect) /\ SF_vars(SendScrollFire)

\* SpecConnection: the message sources while the connection comes and goes.
NextConnection ==
  \/ FetchResult
  \/ DeletionEvent
  \/ RoomSwitch
  \/ ConnectionChange
  \/ MergeEffect

SpecConnection == Init /\ [][NextConnection]_vars

\* SpecLikes: reactions on the messages of one room.
NextLikes ==
  \/ FetchResult
  \/ MergeEffect
  \/ userLikesEffect
  \/ toggleLike
  \/ LikeUpdate

SpecLikes == Init /\ [][NextLikes]_vars

\* SpecMention: the mention record while rooms, name and language change.
NextMention ==
  \/ FetchResult
  \/ DeletionEvent
  \/ RoomSwitch
  \/ UserUpdate
  \/ selectLanguage
  \/ MergeEffect

SpecMention == Init /\ [][NextMention]_vars

\* SpecDelete: delete requests next to the sources of the view.
NextDelete ==
  \/ FetchResult
  \/ DeletionEvent
  \/ RoomSwitch
  \/ MergeEffect
  \/ handleDeleteMessage
  \/ DeleteResponse

SpecDelete == Init /\ [][NextDelete]_vars

\* SpecUpload: the profile image upload.
NextUpload ==
  \/ handleFileUpload
  \/ ReaderLoad
  \/ ReaderError
  \/ ImageLoad
  \/ ImageError
  \/ UpdateSettled

SpecUpload == Init /\ [][NextUpload]_vars

\* The FileReader and the Image finish with one of their events, and the
\* update request settles.
SpecUploadFair ==
  /\ SpecUpload
  /\ WF_vars(ReaderLoad \/ ReaderError)
  /\ WF_vars(ImageLoad \/ ImageError)
  /\ WF_vars(UpdateSettled)

\* SpecBulk: handleLanguageChange and manual translations in one room.
NextBulk ==
  \/ FetchResult
  \/ MergeEffect
  \/ handleManualTranslation
  \/ TranslationDone
  \/ handleLanguageChange
  \/ BulkTimeoutFire
  \/ BulkCallback
  \/ BulkLost

SpecBulk == Init /\ [][NextBulk]_vars

\* SpecRetranslate: handleLanguageChange alone in one room.
NextRetranslate ==
  \/ FetchResult
  \/ MergeEffect
  \/ handleLanguageChange
  \/ BulkTimeoutFire
  \/ BulkCallback
  \/ BulkLost

SpecRetranslate == Init /\ [][NextRetranslate]_vars

\* Effects of a committed render run, and a request that is not dropped is
\* answered.
SpecRetranslateFair ==
  SpecRetranslate /\ WF_vars(MergeEffect) /\ SF_vars(BulkCallback)

(***************************************************************************)
(* The reconciliation of the current inputs, stated without the algorithm: *)
(* which ids are kept, which version of each, and in which order.          *)
(***************************************************************************)
dbNow == IF hist[roomId].isArray THEN hist[roomId].data ELSE <<>>

wsNow == FilterRoom(allMessages, roomId)

\* The last element of s carrying id i.
LastWithId(s, i) ==
  LET last == CHOOSE k \in DOMAIN s : s[k].id = i /\ \A j \in DOMAIN s : s[j].id = i => j <= k
  IN s[last]

KeptIds == (Ids(dbNow) \cup Ids(wsNow)) \ (deletedMessageIds \cup {0})

Winner(i) == IF i \in Ids(wsNow) THEN LastWithId(wsNow, i) ELSE LastWithId(dbNow, i)

\* Position at which id i first shows up, historical data before live data.
FirstSeen(i) ==
  LET both == dbNow \o wsNow
  IN CHOOSE k \in DOMAIN both : both[k].id = i /\ \A j \in DOMAIN both : both[j].id = i => k <= j

Precedes(i, j) ==
  \/ TimeOf(Winner(i)) < TimeOf(Winner(j))
  \/ TimeOf(Winner(i)) = TimeOf(Winner(j)) /\ FirstSeen(i) < FirstSeen(j)

CanonicalView ==
  [n \in 1..Cardinality(KeptIds) |->
     Winner(CHOOSE i \in KeptIds : Cardinality({j \in KeptIds : Precedes(j, i)}) = n - 1)]

\* The current view is the product of a pass over the current inputs.
Reconciled == passes > 0

(***************************************************************************)
(* C1  Tombstone supremacy: after a reconciliation pass no message whose   *)
(* id is in deletedMessageIds is in roomMessages, whether the id is in the *)
(* historical data, the live data, both or neither.                        *)
(***************************************************************************)
TombstoneSupremacy ==
  Reconciled => \A k \in DOMAIN roomMessages : roomMessages[k].id \notin deletedMessageIds

\* A tombstoned id present in BOTH sources, next to a message that stays.
TombstoneWitness ==
  /\ Reconciled
  /\ roomMessages # <<>>
  /\ \E i \in deletedMessageIds : i \in Ids(dbNow) /\ i \in Ids(wsNow)

(***************************************************************************)
(* C2  Dedup with live-wins: after a pass, an id present in both the       *)
(* historical data and the live data of the room (and not tombstoned) is   *)
(* in roomMessages exactly once, as its live version; no two elements of   *)
(* roomMessages, nor of the rendered sequence, share an id.                *)
(***************************************************************************)
UniqueIds(s) == \A j, k \in DOMAIN s : j # k => s[j].id # s[k].id

\* C2: after a pass ids are unique in roomMessages and in the rendered
\* sequence, and an id in both sources is shown once, as its last live version.
DedupLiveWins ==
  Reconciled =>
    /\ UniqueIds(roomMessages)
    /\ UniqueIds(rendered(roomMessages, translatedMessages))
    /\ \A i \in (Ids(dbNow) \cap Ids(wsNow)) \ (deletedMessageIds \cup {0}) :
         /\ Cardinality({k \in DOMAIN roomMessages : roomMessages[k].id = i}) = 1
         /\ \A k \in DOMAIN roomMessages :
              roomMessages[k].id = i => roomMessages[k] = LastWithId(wsNow, i)

\* Both versions of message 1 are present and differ; another message is shown.
DedupWitness ==
  /\ Reconciled
  /\ H1 \in Range(dbNow)
  /\ L1 \in Range(wsNow)
  /\ L1 \in Range(roomMessages)
  /\ Len(roomMessages) >= 2

(***************************************************************************)
(* C3  Mention at-most-once: over a session a notification is fired for a  *)
(* given message id at most once.                                          *)
(***************************************************************************)
MentionAtMostOnce == \A i \in MsgIds : notifyCount[i] <= 1

(***************************************************************************)
(* C6  Reconciliation is a pure function of the historical data, the live  *)
(* list, the tombstones and the active room: after a pass, and after any   *)
(* further pass on unchanged inputs, roomMessages is the reconciliation of *)
(* the current inputs, whatever the view was before.                       *)
(***************************************************************************)
ReconcileDeterministic == Reconciled => roomMessages = CanonicalView

\* A second pass has run on unchanged inputs: two messages are shown and a
\* tombstone is set.
ReconcileTwiceWitness ==
  /\ passes = 2
  /\ Len(roomMessages) >= 2
  /\ deletedMessageIds # {}

(***************************************************************************)
(* C7  Mention trigger: a pass notifies exactly the messages of the new    *)
(* view whose id is not in the previous view, whose sender is not the      *)
(* current user and whose text mentions the current user's display name.   *)
(***************************************************************************)
\* text = pre . "@" . name' . post, name' equal to name up to case, and post
\* empty or starting with a non-word character.
MentionsName(text, name) ==
  \E a \in 1..Len(text) : \E b \in a..Len(text) :
    /\ text[a] = "@"
    /\ b - a = Len(name)
    /\ [k \in 1..Len(name) |-> Fold(text[a + k])] = [k \in 1..Len(name) |-> Fold(name[k])]
    /\ (b = Len(text) \/ ~IsWordChar(text[b + 1]))

ShouldNotify(m, previous, name) ==
  /\ m.id \notin Ids(previous)
  /\ m.senderId # Me
  /\ MentionsName(m.originalText, name)

OwnIds == {m.id : m \in {x \in LiveMessages : x.senderId = Me}}

\* C8: no message sent by the current user is ever notified.
SelfExclusion == \A i \in OwnIds : notifyCount[i] = 0 /\ i \notin fired

\* An own message naming the user entered the view in the last pass.
SelfExclusionWitness ==
  /\ passes = 1
  /\ \E k \in DOMAIN roomMessages :
       /\ roomMessages[k].senderId = Me
       /\ MentionsName(roomMessages[k].originalText, userName)
       /\ fired # {}

(***************************************************************************)
(* C4  Translation generation guard: a translation requested under one     *)
(* language whose callback fires after the language changed is not written *)
(* into translatedMessages: every entry of the map comes from a request    *)
(* made under the current generation.                                      *)
(***************************************************************************)
TranslationGenerationGuard ==
  \A i \in MsgIds : has(translatedMessages, i) => translatedMessages[i].gen = generation

(***************************************************************************)
(* C5  Ordering of the rendered sequence: two messages one second or more  *)
(* apart are in ascending timestamp order; of two messages less than one   *)
(* second apart of which exactly one has a cached translation, the         *)
(* translated one comes after; otherwise they are in timestamp order.      *)
(***************************************************************************)
Apart(a, b) == IF TimeOf(a) < TimeOf(b) THEN TimeOf(b) - TimeOf(a) ELSE TimeOf(a) - TimeOf(b)

InOrder(a, b) ==
  IF Apart(a, b) >= 1000 THEN TimeOf(a) < TimeOf(b)
  ELSE IF has(translatedMessages, a.id) # has(translatedMessages, b.id)
    THEN has(translatedMessages, b.id)
    ELSE TimeOf(a) <= TimeOf(b)

\* C5: every two elements of the rendered sequence are in the order above.
RenderOrdering ==
  LET r == rendered(roomMessages, translatedMessages)
  IN \A j, k \in DOMAIN r : j < k => InOrder(r[j], r[k])

\* Three messages are shown, and a translated one stands behind a later one.
RenderOrderingWitness ==
  LET r == rendered(roomMessages, translatedMessages)
  IN /\ Len(r) = 3
     /\ \E j, k \in DOMAIN r : j < k /\ TimeOf(r[j]) > TimeOf(r[k])

(***************************************************************************)
(* C9  Autoscroll policy: when a pass brings a new message into            *)
(* roomMessages, a scroll-to-latest is scheduled if and only if            *)
(* isUserScrolling is false and showScrollToBottom is false.               *)
(***************************************************************************)
Arrival == MergeEffect /\ Ids(roomMessages') \ Ids(roomMessages) # {}

\* C9: a pass that brings in a new id leaves the auto-scroll timer pending
\* exactly when both flags are false.
AutoscrollOnArrival ==
  [][Arrival => (autoScrollTimeout' <=> (~isUserScrolling /\ ~showScrollToBottom))]_vars

(***************************************************************************)
(* C10  Sending a non-blank message always results in a scroll-to-latest   *)
(* that hides the jump-to-latest button, whatever isUserScrolling and      *)
(* showScrollToBottom are when it is sent: the send can always schedule    *)
(* its timer, the timer's firing scrolls and hides the button, and a       *)
(* scheduled timer leads to that state.                                    *)
(***************************************************************************)
SendForcesScroll ==
  /\ [](Idle /\ sendTimeouts < MaxSends
          => ENABLED (handleSendMessage /\ sendTimeouts' = sendTimeouts + 1))
  /\ [][SendScrollFire => atLatest' /\ ~showScrollToBottom']_vars
  /\ (sendTimeouts > 0) ~> (atLatest /\ ~showScrollToBottom)

\* A message was sent while the user scrolls away from the bottom.
SendWitness ==
  /\ sendTimeouts > 0
  /\ isUserScrolling
  /\ showScrollToBottom
  /\ ~atLatest

(***************************************************************************)
(* C11  Jump-to-latest affordance: when a pass brings a new message into   *)
(* roomMessages while the auto-scroll condition does not hold              *)
(* (isUserScrolling, or the position of the last scroll event was away     *)
(* from the bottom), the jump-to-latest button is shown after the pass and *)
(* no scroll is scheduled.                                                 *)
(***************************************************************************)
JumpAffordanceOnArrival ==
  [][Arrival /\ (isUserScrolling \/ showScrollToBottom)
       => showScrollToBottom' /\ ~autoScrollTimeout']_vars

(***************************************************************************)
(* C12  Scroll-intent debounce: every scroll event sets isUserScrolling    *)
(* and starts a full quiet period; the flag is reset only when             *)
(* ScrollQuietMs have passed since the latest scroll event, and the reset  *)
(* is due at that moment; no timer of an earlier scroll event is pending.  *)
(***************************************************************************)
ScrollDebounce ==
  /\ [][handleScroll =>
          isUserScrolling' /\ userScrollTimeout' = {Timer(TRUE, ScrollQuietMs)}]_vars
  /\ [][isUserScrolling /\ ~isUserScrolling' => sinceScroll = ScrollQuietMs]_vars
  /\ [](isUserScrolling /\ sinceScroll = ScrollQuietMs
           => \E t \in userScrollTimeout : t.latest /\ t.remaining = 0)
  /\ [](\A t \in userScrollTimeout : t.latest)

\* The flag has been reset after a scroll event away from the bottom.
ScrollDebounceWitness ==
  /\ showScrollToBottom
  /\ ~isUserScrolling
  /\ userScrollTimeout = {}
  /\ sinceScroll = ScrollQuietMs

(***************************************************************************)
(* C13  Invalidation on language change: every step that changes           *)
(* currentLanguage leaves translatedMessages without any entry.            *)
(***************************************************************************)
InvalidationOnLanguageChange ==
  [][currentLanguage' # currentLanguage
       => \A i \in MsgIds : ~has(translatedMessages', i)]_vars

\* The language was changed while the map held a translation.
InvalidationWitness ==
  /\ dropped
  /\ generation > 0
  /\ \A i \in MsgIds : ~has(translatedMessages, i)

(***************************************************************************)
(* C14  Notification failure isolation: whatever happens to the            *)
(* notification of a pass (playback rejected, permission denied, the       *)
(* Notification constructor throwing), the pass completes: it sets         *)
(* roomMessages to the merge of the current inputs and the component stays *)
(* mounted.                                                                *)
(***************************************************************************)
NotificationIsolation ==
  [][MergeEffect \/ MergeEffectNotificationThrows
       => /\ roomMessages' =
               mergedMessages(hist[roomId], allMessages, roomId, deletedMessageIds)
          /\ ~unmounted']_vars

(***************************************************************************)
(* C15  Malformed data: after a pass no row without id is in roomMessages, *)
(* every row of the sources with an id that is not tombstoned is, and a    *)
(* row without timestamp stands before every row with a timestamp after    *)
(* the epoch.                                                              *)
(***************************************************************************)
MalformedData ==
  Reconciled =>
    /\ \A k \in DOMAIN roomMessages : roomMessages[k].id # 0
    /\ \A m \in Range(dbNow) \cup Range(wsNow) :
         m.id # 0 /\ m.id \notin deletedMessageIds => m.id \in Ids(roomMessages)
    /\ \A j, k \in DOMAIN roomMessages :
         roomMessages[j].timestamp = 0 /\ roomMessages[k].timestamp > 0 => j < k

\* A pass has completed on a page with a row without id and, behind a dated
\* row, a row without timestamp, which now stands first.
MalformedDataWitness ==
  /\ Reconciled
  /\ dbNow = <<M4, X0, M5>>
  /\ roomMessages = <<M5, M4>>

(***************************************************************************)
(* C16  History survives disconnects: a connection-state transition and    *)
(* the pass of the render it causes leave roomMessages unchanged, and a    *)
(* message leaves roomMessages only when its id is tombstoned or the room  *)
(* has been switched.                                                      *)
(***************************************************************************)
TransitionKeepsView ==
  /\ [][ConnectionChange => roomMessages' = roomMessages]_vars
  /\ [][MergeEffect /\ connectionChanged => roomMessages' = roomMessages]_vars

Removed(k) == roomMessages[k].id \notin Ids(roomMessages')

\* C16 as claimed: removal only by tombstone or room switch.
HistorySurvivesDisconnect ==
  /\ TransitionKeepsView
  /\ [][\A k \in DOMAIN roomMessages :
          Removed(k) => \/ roomMessages[k].id \in deletedMessageIds
                        \/ roomMessages[k].roomId # roomId]_vars

\* C16 as amended: a message also leaves the view when the historical data of
\* the room no longer holds it and the live list does not hold it either.
HistorySurvivesDisconnectAmended ==
  /\ TransitionKeepsView
  /\ [][\A k \in DOMAIN roomMessages :
          Removed(k) => \/ roomMessages[k].id \in deletedMessageIds
                        \/ roomMessages[k].roomId # roomId
                        \/ roomMessages[k].id \notin Ids(dbNow) \cup Ids(wsNow)]_vars

\* The pass after a connection-state transition has run on a view of two
\* messages.
DisconnectWitness ==
  /\ isReconnecting
  /\ ~connectionChanged
  /\ Reconciled
  /\ Len(roomMessages) >= 2

(***************************************************************************)
(* C17  Convergence: roomMessages changes only by being set to the merge   *)
(* of the current inputs, and once the historical data of the room, the    *)
(* live list, the tombstones and the active room stop changing,            *)
(* roomMessages eventually is the reconciliation of them and stays so.     *)
(***************************************************************************)
Convergence ==
  /\ [][roomMessages' # roomMessages
         => roomMessages' =
              mergedMessages(hist[roomId], allMessages, roomId, deletedMessageIds)]_vars
  /\ (<>[][UNCHANGED <<dbNow, allMessages, deletedMessageIds, roomId>>]_vars
        => <>[](roomMessages = CanonicalView))

(***************************************************************************)
(* C18  Room tagging: after a pass every message of roomMessages carries   *)
(* the active room's id and comes from the query data stored under the     *)
(* active room or from a live message of the active room, whatever has     *)
(* arrived for other rooms.                                                *)
(***************************************************************************)
RoomTagging ==
  Reconciled =>
    \A k \in DOMAIN roomMessages :
      /\ roomMessages[k].roomId = roomId
      /\ roomMessages[k] \in Range(dbNow) \cup Range(wsNow)

\* Room 2 is shown while the query data and a live message of room 1 are held.
RoomTaggingWitness ==
  /\ Reconciled
  /\ roomId = 2
  /\ roomMessages # <<>>
  /\ hist[1].isArray
  /\ \E k \in DOMAIN allMessages : allMessages[k].roomId = 1

(***************************************************************************)
(* C19  Join re-issue: an effects flush after isConnected became true or   *)
(* the room changed while connected calls joinRoom for the active room; a  *)
(* flush while not connected calls it for none; it is never called for     *)
(* another room than the active one.                                       *)
(***************************************************************************)
JoinReissue ==
  /\ [][MergeEffect /\ isConnected /\ joinDeps # <<roomId, isConnected>>
         => joins' = {roomId}]_vars
  /\ [][MergeEffect /\ ~isConnected => joins' = {}]_vars
  /\ [][MergeEffect => joins' \subseteq {roomId}]_vars
  /\ [][joins' # joins => MergeEffect]_vars

\* Room 2 has been joined by the last flush.
JoinWitness ==
  /\ isConnected
  /\ roomId = 2
  /\ joins = {2}
  /\ Reconciled

(***************************************************************************)
(* C20  Reaction overwrite: from a live like-update for an id until the    *)
(* next toggle of that id, the pair shown for the id is the pair the       *)
(* update asserted.                                                        *)
(***************************************************************************)
ReactionOverwrite ==
  \A i \in LikeIds :
    asserted[i].present =>
      likeProps(messageLikes, i) =
        [totalLikes |-> asserted[i].totalLikes, userLiked |-> asserted[i].userLiked]

(***************************************************************************)
(* C21  Reaction invariant: for every message id, the pair shown has       *)
(* userLiked true only with totalLikes at least 1, and totalLikes is never *)
(* negative.                                                               *)
(***************************************************************************)
ReactionInvariant ==
  \A i \in MsgIds :
    LET shown == likeProps(messageLikes, i)
    IN /\ shown.userLiked => shown.totalLikes >= 1
       /\ shown.totalLikes >= 0

(***************************************************************************)
(* C22  MentionRecord content: every id in mentionedMessageIds is an id    *)
(* for which a notification has been fired in this session.                *)
(***************************************************************************)
MentionRecordContent == \A i \in mentionedMessageIds : notifyCount[i] > 0

(***************************************************************************)
(* C23  MentionRecord is monotonic: no step removes an id from             *)
(* mentionedMessageIds, whether the message is tombstoned, the room is     *)
(* switched, or the language or the display name changes.                  *)
(***************************************************************************)
MentionRecordMonotonic == [][mentionedMessageIds \subseteq mentionedMessageIds']_vars

\* Message 1 is still recorded after its tombstone, a switch to room 2, a
\* language change and a name change, and a pass over all of that.
MentionRecordWitness ==
  /\ Reconciled
  /\ 1 \in mentionedMessageIds
  /\ 1 \in deletedMessageIds
  /\ roomId = 2
  /\ generation > 0
  /\ userName = NameAlx

(***************************************************************************)
(* C24  No retroactive re-scan on name change: in the pass after a change  *)
(* of the display name, a message that was in the view before the change   *)
(* fires no notification and keeps its membership of mentionedMessageIds.  *)
(***************************************************************************)
NoRetroactiveRescan ==
  [][MergeEffect /\ nameChanged =>
       \A i \in Ids(roomMessages) :
         /\ i \notin fired'
         /\ (i \in mentionedMessageIds') = (i \in mentionedMessageIds)]_vars

(***************************************************************************)
(* C25  Initial load does not notify: a pass whose previous view is empty  *)
(* fires no notification.                                                  *)
(***************************************************************************)
InitialLoadSilent ==
  [][(MergeEffect \/ MergeEffectNotificationThrows) /\ roomMessages = <<>>
       => fired' = {}]_vars

(***************************************************************************)
(* C26  Delete is applied only through the tombstone broadcast: issuing a  *)
(* delete request and receiving its response leave roomMessages and        *)
(* deletedMessageIds unchanged and cause no pass; a failed delete changes  *)
(* nothing but the reported error; and a message whose delete was          *)
(* requested leaves the view of its room only in a pass with its id in     *)
(* deletedMessageIds.                                                      *)
(***************************************************************************)
DeleteRequestInert ==
  /\ [][handleDeleteMessage \/ DeleteResponse
         => UNCHANGED <<roomMessages, deletedMessageIds, passes, hist, allMessages>>]_vars
  /\ [][deletes' # deletes => handleDeleteMessage \/ DeleteResponse]_vars

DeleteRequested == {d.id : d \in deletes}

\* C26 as claimed: the message disappears only by its deletion event.
DeleteOnlyByTombstone ==
  /\ DeleteRequestInert
  /\ [][\A k \in DOMAIN roomMessages :
          roomMessages[k].id \in DeleteRequested /\ Removed(k)
            => /\ MergeEffect
               /\ \/ roomMessages[k].id \in deletedMessageIds
                  \/ roomMessages[k].roomId # roomId]_vars

\* C26 as amended: it also disappears in a pass whose inputs for the room
\* (historical result, live list) no longer hold it.
DeleteOnlyByTombstoneAmended ==
  /\ DeleteRequestInert
  /\ [][\A k \in DOMAIN roomMessages :
          roomMessages[k].id \in DeleteRequested /\ Removed(k)
            => /\ MergeEffect
               /\ \/ roomMessages[k].id \in deletedMessageIds
                  \/ roomMessages[k].roomId # roomId
                  \/ roomMessages[k].id \notin Ids(dbNow) \cup Ids(wsNow)]_vars

\* A delete of message 3 failed and reported its error; the message is still
\* shown after a later pass, and not tombstoned.
DeleteWitness ==
  /\ Reconciled
  /\ [id |-> 3, outcome |-> "failed"] \in deletes
  /\ 3 \in Ids(roomMessages)
  /\ deletedMessageIds = {}

(***************************************************************************)
(* C27  Bulk re-translation is all-or-nothing: no result of a              *)
(* re-translation is in translatedMessages before all its callbacks have   *)
(* fired; the step of the last callback sets translatedMessages to exactly *)
(* the results for the messages of the closure; a re-translation with a    *)
(* request that never completes is never published; and a started          *)
(* re-translation is eventually published unless one of its requests never *)
(* completes.                                                              *)
(***************************************************************************)
BulkOf(g) == CHOOSE b \in bulks : b.gen = g

Started(g) == \E b \in bulks : b.gen = g /\ b.phase = "running"

Published(g) == \E b \in bulks : b.gen = g /\ b.phase = "published"

Incomplete(g) == \E b \in bulks : b.gen = g /\ b.lost # {}

IsBulkResult(entry, g) == entry.priority = "normal" /\ entry.gen = g

BulkAllOrNothing ==
  /\ [](\A b \in bulks :
          b.phase # "published" => \A i \in MsgIds : ~IsBulkResult(translatedMessages[i], b.gen))
  /\ [](\A b \in bulks : b.phase = "published" => b.fresh = b.ids /\ b.lost = {})
  /\ [][\A b \in bulks' :
          b.phase = "published" /\ ~Published(b.gen)
            => translatedMessages' =
                 [i \in MsgIds |-> IF i \in b.ids THEN BulkEntry(b) ELSE NoEntry]]_vars
  /\ \A g \in 1..MaxGeneration : Started(g) ~> (Published(g) \/ Incomplete(g))

\* A re-translation of two messages has been published and both results are
\* in translatedMessages.
BulkWitness ==
  \E b \in bulks :
    /\ b.phase = "published"
    /\ b.ids = {1, 3}
    /\ \A i \in b.ids : translatedMessages[i] = BulkEntry(b)

(***************************************************************************)
(* C28  A manual translation stays: an entry of translatedMessages written *)
(* by a manual (high-priority) request for the current language is         *)
(* unchanged by every step that is not a language change or the delayed    *)
(* reset of one.                                                           *)
(***************************************************************************)
ManualTranslationStays ==
  [][\A i \in MsgIds :
       /\ translatedMessages[i].priority = "high"
       /\ translatedMessages[i].gen = generation
       /\ generation' = generation
       /\ ~BulkTimeoutFire
       => translatedMessages'[i] = translatedMessages[i]]_vars

(***************************************************************************)
(* C29  One quiet-period timer: at most one timer of handleScroll is       *)
(* pending at any time; a scroll event leaves exactly its own timer        *)
(* pending; and isUserScrolling is set to false only by the firing of the  *)
(* timer of the latest scroll event, ScrollQuietMs or more after it.       *)
(***************************************************************************)
SingleScrollTimer ==
  /\ [](Cardinality(userScrollTimeout) <= 1)
  /\ [][handleScroll => Cardinality(userScrollTimeout') = 1]_vars
  /\ [][isUserScrolling /\ ~isUserScrolling'
         => /\ UserScrollTimeoutFire
            /\ \E t \in userScrollTimeout \ userScrollTimeout' : t.latest
            /\ sinceScroll >= ScrollQuietMs]_vars

\* The flag has been reset by the timer of a scroll event that had cleared
\* the timer of an earlier one.
SingleScrollTimerWitness ==
  /\ cleared
  /\ ~isUserScrolling
  /\ userScrollTimeout = {}

(***************************************************************************)
(* C30  Profile image upload: a file that is not an image or is larger     *)
(* than MaxFileBytes gets an error toast, leaves isUploading false and     *)
(* issues no update request; an accepted file whose processing starts sets *)
(* isUploading; isUploading always returns to false; and an update request *)
(* is issued only by the load event of the decoded image.                  *)
(***************************************************************************)
Rejected(file) == file.selected /\ (~file.isImage \/ file.size > MaxFileBytes)

UploadLifecycle ==
  /\ [][handleFileUpload /\ Rejected(selectedFile')
         => /\ uploadToast' \in {"Invalid file type: Please select an image file.",
                                 "File too large: Please select an image smaller than 1MB."}
            /\ ~isUploading'
            /\ uploadJob' = "none"
            /\ updateRequests' = updateRequests]_vars
  /\ [][handleFileUpload /\ uploadJob' = "reading" => isUploading']_vars
  /\ [][updateRequests' # updateRequests => ImageLoad /\ uploadJob = "decoding"]_vars
  /\ isUploading ~> ~isUploading

====
